---- MODULE Spec2Model ----
(***************************************************************************)
(* Model of namespace IO of Rieger.h: the optional-returning file helpers  *)
(* Read, ReadAllBytes, ReadAllLines, ReadBlock, Write, WriteAllBytes and   *)
(* WriteAllLines, run against one filesystem path.                         *)
(*                                                                         *)
(* The state is the filesystem entry at the path (its kind, its bytes and  *)
(* whether the OS lets it be examined and opened), the platform the header *)
(* was built for (it selects what a stream opened without std::ios::binary *)
(* does to the bytes), the number of OS file handles the component holds,  *)
(* and the record of the last call: its arguments, the exit it took and    *)
(* what it returned.                                                       *)
(***************************************************************************)
EXTENDS Integers, Sequences, FiniteSets

VARIABLES platform, kind, data, access, openHandles,
          op, content, lines, blockOffset, blockSize,
          exit, ret, retBytes, retLines, written

vars == <<platform, kind, data, access, openHandles,
          op, content, lines, blockOffset, blockSize,
          exit, ret, retBytes, retLines, written>>

fsVars == <<platform, kind, data, access>>

(***************************************************************************)
(* Bounds and byte values.                                                 *)
(***************************************************************************)
MaxLen == 2

LF == 10

CR == 13

SUB == 26

Letter == 97

Byte == {LF, SUB, Letter}

BoundedSeq(S, n) == UNION {[1..k -> S] : k \in 0..n}

Contents == BoundedSeq(Byte, MaxLen)


FifoData == {<<>>, <<Letter>>, <<Letter, LF>>}

Platforms == {"posix", "windows"}

Kinds == {"missing", "dir", "file", "fifo"}

Accesses == {"ok", "noopen", "nosearch"}

ReadOps == {"Read", "ReadAllBytes", "ReadAllLines", "ReadBlock"}

WriteOps == {"Write", "WriteAllBytes", "WriteAllLines"}

(***************************************************************************)
(* Stream modes.  A stream opened without std::ios::binary is a text       *)
(* stream: on a Windows build every LF written becomes CR LF, every CR LF  *)
(* read becomes LF and input ends at the first SUB (Ctrl-Z); on a POSIX    *)
(* build the bytes pass unchanged.  A binary stream never changes bytes.   *)
(***************************************************************************)
RECURSIVE TextOut(_, _)
TextOut(p, s) ==
    IF s = <<>> THEN <<>>
    ELSE IF p = "windows" /\ Head(s) = LF
         THEN <<CR, LF>> \o TextOut(p, Tail(s))
         ELSE <<Head(s)>> \o TextOut(p, Tail(s))

RECURSIVE TextIn(_, _)
TextIn(p, d) ==
    IF d = <<>> THEN <<>>
    ELSE IF p = "windows" /\ Head(d) = SUB THEN <<>>
    ELSE IF p = "windows" /\ Head(d) = CR /\ Len(d) > 1 /\ d[2] = LF
         THEN <<LF>> \o TextIn(p, Tail(Tail(d)))
         ELSE <<Head(d)>> \o TextIn(p, Tail(d))

(***************************************************************************)
(* std::getline loop of ReadAllLines over the characters of the stream:    *)
(* each call extracts up to and including the next LF and stores the       *)
(* characters before it; a call that extracts nothing fails and ends the   *)
(* loop.                                                                   *)
(***************************************************************************)
RECURSIVE FirstLF(_, _)
FirstLF(s, i) ==
    IF i > Len(s) THEN 0
    ELSE IF s[i] = LF THEN i
    ELSE FirstLF(s, i + 1)

RECURSIVE GetLines(_)
GetLines(s) ==
    IF s = <<>> THEN <<>>
    ELSE LET i == FirstLF(s, 1)
         IN  IF i = 0 THEN <<s>>
             ELSE <<SubSeq(s, 1, i - 1)>> \o GetLines(SubSeq(s, i + 1, Len(s)))

(***************************************************************************)
(* outfile << line << std::endl for every line, in order.                  *)
(***************************************************************************)
RECURSIVE PutLines(_)
PutLines(ls) ==
    IF ls = <<>> THEN <<>>
    ELSE Head(ls) \o <<LF>> \o PutLines(Tail(ls))

LineValues == {<<>>, <<Letter>>, <<SUB>>, <<LF>>}

LineLists ==
    {ls \in BoundedSeq(LineValues, MaxLen) : Len(PutLines(ls)) <= MaxLen + 1}

(***************************************************************************)
(* file.seekg(blockOffset) then file.read(buffer, blockSize): the stream   *)
(* position moves blockOffset bytes from the start (also past the end),    *)
(* and read transfers the bytes that are there, at most blockSize.         *)
(***************************************************************************)
SeekNone(d, n) == d

RECURSIVE Seek(_, _)
Seek(d, n) ==
    IF n = 0 \/ d = <<>> THEN d ELSE Seek(Tail(d), n - 1)

RECURSIVE Take(_, _)
Take(d, n) ==
    IF n = 0 \/ d = <<>> THEN <<>> ELSE <<Head(d)>> \o Take(Tail(d), n - 1)

(***************************************************************************)
(* The guard every read starts with, then the open:                        *)
(*   if (!exists(filename) || is_directory(filename)) return kNone;        *)
(*   std::ifstream file(filename ...); if (!file.is_open()) return kNone;  *)
(* exists() and is_directory() are the throwing overloads: when the status *)
(* of the path cannot be determined (a directory of the path cannot be     *)
(* searched) they raise std::filesystem::filesystem_error.                 *)
(***************************************************************************)
ReadGate ==
    IF access = "nosearch" THEN "throw"
    ELSE IF kind = "missing" \/ kind = "dir" THEN "nofile"
    ELSE IF access # "ok" THEN "noopen"
    ELSE "open"

(***************************************************************************)
(* std::ofstream outfile(filename ...); if (!outfile.is_open()) return     *)
(* false.  Opening creates a missing file; it fails on a directory and     *)
(* when the OS denies the open.                                            *)
(***************************************************************************)
WriteGate ==
    IF kind = "dir" \/ access # "ok" THEN "noopen" ELSE "open"

(***************************************************************************)
(* Handles.  A handle is acquired when the stream's open succeeds (every   *)
(* exit after the is_open() test).  It is released by the close() call on  *)
(* the paths that have one (the normal return of every operation but       *)
(* ReadBlock) and otherwise by the destructor of the stream object, which  *)
(* runs at every return that follows the stream's construction.            *)
(***************************************************************************)
Acquired(o, e) == IF e \in {"throw", "nofile", "noopen"} THEN 0 ELSE 1

ClosedExplicitly(o, e) == o # "ReadBlock" /\ e = "ok"

StreamConstructed(o, e) == o \in WriteOps \/ e \notin {"throw", "nofile"}

ReleasedCloseOnly(o, e) ==
    IF ClosedExplicitly(o, e) THEN 1 ELSE 0

Released(o, e) ==
    IF ClosedExplicitly(o, e) THEN 1
    ELSE IF StreamConstructed(o, e) /\ Acquired(o, e) = 1 THEN 1
    ELSE 0

(***************************************************************************)
(* The bytes a stream opened on the path delivers: the file's data for a    *)
(* regular file, whatever its writers supply for a FIFO.                  *)
(***************************************************************************)
Source == IF kind = "fifo" THEN FifoData ELSE {data}

Init ==
    /\ platform \in Platforms
    /\ kind \in {"missing", "dir", "file"}
    /\ data \in (IF kind = "file" THEN Contents ELSE {<<>>})
    /\ access = "ok"
    /\ openHandles = 0
    /\ op = "none"
    /\ content = <<>>
    /\ lines = <<>>
    /\ blockOffset = 0
    /\ blockSize = 0
    /\ exit = "none"
    /\ ret = "none"
    /\ retBytes = <<>>
    /\ retLines = <<>>
    /\ written = 0

(***************************************************************************)
(* Bookkeeping shared by the calls: the record of the call and the handle  *)
(* count.                                                                  *)
(***************************************************************************)
Returns(o, e, r, b, l) ==
    /\ op' = o
    /\ exit' = e
    /\ ret' = r
    /\ retBytes' = b
    /\ retLines' = l
    /\ openHandles' = openHandles + Acquired(o, e) - Released(o, e)

NoArgs ==
    /\ content' = <<>>
    /\ lines' = <<>>
    /\ blockOffset' = 0
    /\ blockSize' = 0
    /\ written' = 0

FailedRead(o, g) ==
    IF g = "throw" THEN Returns(o, "throw", "throw", <<>>, <<>>)
    ELSE Returns(o, g, "absent", <<>>, <<>>)

(* IO::Read *)
Read ==
    /\ NoArgs
    /\ UNCHANGED fsVars
    /\ IF ReadGate # "open" THEN FailedRead("Read", ReadGate)
       ELSE \E d \in Source :
                Returns("Read", "ok", "present", TextIn(platform, d), <<>>)

(* IO::ReadAllBytes *)
ReadAllBytes ==
    /\ NoArgs
    /\ UNCHANGED fsVars
    /\ IF ReadGate # "open" THEN FailedRead("ReadAllBytes", ReadGate)
       ELSE \E d \in Source :
                Returns("ReadAllBytes", "ok", "present", d, <<>>)

(* IO::ReadAllLines *)
ReadAllLines ==
    /\ NoArgs
    /\ UNCHANGED fsVars
    /\ IF ReadGate # "open" THEN FailedRead("ReadAllLines", ReadGate)
       ELSE \E d \in Source :
                Returns("ReadAllLines", "ok", "present", <<>>,
                        GetLines(TextIn(platform, d)))

(* IO::ReadBlock *)
ReadBlock ==
    /\ \E off \in 0..(MaxLen + 1), size \in 0..(MaxLen + 1) :
          /\ content' = <<>>
          /\ lines' = <<>>
          /\ written' = 0
          /\ blockOffset' = off
          /\ blockSize' = size
          /\ UNCHANGED fsVars
          /\ IF ReadGate # "open" THEN FailedRead("ReadBlock", ReadGate)
             ELSE IF kind = "fifo"
                  THEN Returns("ReadBlock", "seekfail", "absent", <<>>, <<>>)
             ELSE LET buffer == Take(Seek(data, off), size)
                  IN  IF Len(buffer) # size
                      THEN Returns("ReadBlock", "short", "absent", <<>>, <<>>)
                      ELSE Returns("ReadBlock", "ok", "present", buffer, <<>>)

(***************************************************************************)
(* The three writes share their shape: open (truncating), one transfer of  *)
(* the image of the argument, close, return true.  The device accepts the  *)
(* first n bytes of the image; n short of the image is a transfer that     *)
(* failed (no space left, I/O error), which sets the stream's error state  *)
(* and nothing else.                                                       *)
(***************************************************************************)
ReturnAfterTransfer(n, image) == "true"

Transfer(o, image) ==
    /\ UNCHANGED <<platform, access>>
    /\ IF WriteGate # "open"
       THEN /\ UNCHANGED <<kind, data>>
            /\ written' = 0
            /\ Returns(o, "noopen", "false", <<>>, <<>>)
       ELSE \E n \in 0..Len(image) :
               /\ kind' = (IF kind = "fifo" THEN "fifo" ELSE "file")
               /\ data' = (IF kind = "fifo" THEN <<>> ELSE SubSeq(image, 1, n))
               /\ written' = n
               /\ Returns(o, "ok", ReturnAfterTransfer(n, image), <<>>, <<>>)

(* IO::Write *)
Write ==
    /\ \E c \in Contents :
          /\ content' = c
          /\ lines' = <<>>
          /\ blockOffset' = 0
          /\ blockSize' = 0
          /\ Transfer("Write", TextOut(platform, c))

(* IO::WriteAllBytes *)
WriteAllBytes ==
    /\ \E c \in Contents :
          /\ content' = c
          /\ lines' = <<>>
          /\ blockOffset' = 0
          /\ blockSize' = 0
          /\ Transfer("WriteAllBytes", c)

(* IO::WriteAllLines *)
WriteAllLines ==
    /\ \E ls \in LineLists :
          /\ content' = <<>>
          /\ lines' = ls
          /\ blockOffset' = 0
          /\ blockSize' = 0
          /\ Transfer("WriteAllLines", TextOut(platform, PutLines(ls)))

(***************************************************************************)
(* The rest of the system acting on the path between two calls: changing   *)
(* what the OS allows, and replacing the entry.                            *)
(***************************************************************************)
External(o) ==
    /\ NoArgs
    /\ op' = o
    /\ exit' = "none"
    /\ ret' = "none"
    /\ retBytes' = <<>>
    /\ retLines' = <<>>
    /\ UNCHANGED <<platform, openHandles>>

SetAccess ==
    /\ \E a \in Accesses \ {access} : access' = a
    /\ UNCHANGED <<kind, data>>
    /\ External("SetAccess")

Replace ==
    /\ \E k \in Kinds \ {kind} :
          /\ kind' = k
          /\ data' \in (IF k = "file" THEN Contents ELSE {<<>>})
    /\ UNCHANGED access
    /\ External("Replace")

Next ==
    \/ Read
    \/ ReadAllBytes
    \/ ReadAllLines
    \/ ReadBlock
    \/ Write
    \/ WriteAllBytes
    \/ WriteAllLines
    \/ SetAccess
    \/ Replace

Spec == Init /\ [][Next]_vars

(***************************************************************************)
(* Properties.                                                             *)
(***************************************************************************)
(* The bytes a write operation hands to the device for its argument. *)
ImageOf ==
    CASE op = "Write" -> TextOut(platform, content)
      [] op = "WriteAllBytes" -> content
      [] op = "WriteAllLines" -> TextOut(platform, PutLines(lines))
      [] OTHER -> <<>>

NoNewline(ls) == \A i \in 1..Len(ls) : \A j \in 1..Len(ls[i]) : ls[i][j] # LF

(* The newline-delimited records of a text: the pieces between successive  *)
(* newlines, the last piece counting only when it is not empty.            *)
NewlinesOf(c) == {i \in 1..Len(c) : c[i] = LF}

RecordCount(c) ==
    Cardinality(NewlinesOf(c)) + (IF c # <<>> /\ c[Len(c)] # LF THEN 1 ELSE 0)

RecordStart(c, k) ==
    IF k = 1 THEN 1
    ELSE 1 + CHOOSE i \in NewlinesOf(c) :
                 Cardinality({j \in NewlinesOf(c) : j <= i}) = k - 1

RecordEnd(c, k) ==
    IF k <= Cardinality(NewlinesOf(c))
    THEN (CHOOSE i \in NewlinesOf(c) :
              Cardinality({j \in NewlinesOf(c) : j <= i}) = k) - 1
    ELSE Len(c)

Records(c) == [k \in 1..RecordCount(c) |-> SubSeq(c, RecordStart(c, k), RecordEnd(c, k))]

(* C1: ReadBlock returns an absent result whenever offset + length exceeds
   the size of the file, for every offset and length, length = 0 and
   offsets beyond the end included; it never returns a buffer then. *)
C1_BlockBeyondEndIsAbsent ==
    (op = "ReadBlock" /\ kind = "file" /\ blockOffset + blockSize > Len(data))
        => ret = "absent"

(* C2: every read operation returns an absent result when the path does
   not exist and when it is a directory, in every state of the filesystem. *)
C2_MissingOrDirectoryIsAbsent ==
    (op \in ReadOps /\ kind \in {"missing", "dir"}) => ret = "absent"

(* C3: text round trip: a Read that directly follows a Write(C) which
   returned true returns a present result equal to exactly C. *)
C3_TextRoundTrip ==
    [][(op = "Write" /\ ret = "true" /\ op' = "Read")
          => (ret' = "present" /\ retBytes' = content)]_vars

(* C4: byte round trip: a ReadAllBytes that directly follows a
   WriteAllBytes(B) which returned true returns a present result with the
   length and the byte values of B. *)
C4_ByteRoundTrip ==
    [][(op = "WriteAllBytes" /\ ret = "true" /\ op' = "ReadAllBytes")
          => (ret' = "present" /\ Len(retBytes') = Len(content)
                /\ retBytes' = content)]_vars

(* C5: line round trip: for L with no element containing a newline, a
   ReadAllLines that directly follows a successful WriteAllLines(L)
   returns exactly L: same count, order and contents. *)
C5_LineRoundTrip ==
    [][(op = "WriteAllLines" /\ ret = "true" /\ NoNewline(lines)
          /\ op' = "ReadAllLines")
          => (ret' = "present" /\ retLines' = lines)]_vars

(* C6 as amended: for an existing regular file of size S that can be
   opened, and offset + length <= S, ReadBlock returns a present buffer of
   exactly length bytes, the file's bytes at offset .. offset+length-1;
   with offset = 0 and length = S these are the bytes ReadAllBytes
   returns, the whole file. *)
C6_BlockWithinFile ==
    (op = "ReadBlock" /\ kind = "file" /\ access = "ok"
        /\ blockOffset + blockSize <= Len(data))
        => /\ ret = "present"
           /\ Len(retBytes) = blockSize
           /\ \A i \in 1..blockSize : retBytes[i] = data[blockOffset + i]
           /\ (blockOffset = 0 /\ blockSize = Len(data)) => retBytes = data

C6_Witness ==
    /\ op = "ReadBlock" /\ kind = "file" /\ access = "ok"
    /\ blockOffset > 0 /\ blockSize > 0
    /\ blockOffset + blockSize = Len(data)
    /\ ret = "present"

(* C6 as stated: for every existing regular file of size S and
   offset + length <= S, ReadBlock returns a present buffer of the file's
   bytes at offset .. offset+length-1. *)
C6_BlockWithinAnyFile ==
    (op = "ReadBlock" /\ kind = "file" /\ blockOffset + blockSize <= Len(data))
        => /\ ret = "present"
           /\ Len(retBytes) = blockSize
           /\ \A i \in 1..blockSize : retBytes[i] = data[blockOffset + i]

(* C7: every write failure is reported as false: a write operation returns
   true only when it opened the file and the whole content was written. *)
C7_WriteFailureIsFalse ==
    op \in WriteOps
        => /\ ret \in {"true", "false"}
           /\ ret = "true" => (exit = "ok" /\ written = Len(ImageOf))

(* C8: no IO operation ends by throwing: each read ends by returning an
   absent or present result and each write by returning true or false, in
   every filesystem state. *)
C8_NoOperationThrows ==
    /\ op \in ReadOps => ret \in {"absent", "present"}
    /\ op \in WriteOps => ret \in {"true", "false"}

(* C9: handle release: after any IO operation, whatever exit it took, the
   handle it opened is closed; the component holds no open handle after
   any sequence of calls. *)
C9_NoHandleHeld == openHandles = 0

C9_Witness ==
    /\ op = "ReadBlock" /\ exit = "short" /\ ret = "absent"
    /\ openHandles = 0

(* C10: a ReadAllLines that directly follows a successful Write(C)
   returns the newline-delimited records of C in order with the newlines
   stripped: a final record without newline is an entry, a terminating
   newline adds no empty entry. *)
C10_WriteThenReadLines ==
    [][(op = "Write" /\ ret = "true" /\ op' = "ReadAllLines")
          => (ret' = "present" /\ retLines' = Records(content))]_vars

====
